---- MODULE Spec2Model ----
(***************************************************************************)
(* SPEND SimpleFIN backend (server.js): the shared credential slot         *)
(* accessUrl, the request handlers that read and write it across their     *)
(* awaits, the transaction mapping and sort, and categorizeTransaction.    *)
(***************************************************************************)
EXTENDS Integers, Sequences, FiniteSets, TLC

(* ------------------------------------------------------------------ *)
(* Bounds of the model                                                 *)
(* ------------------------------------------------------------------ *)

\* concurrent HTTP requests in flight during one run
NumReqs == 2
\* accounts in one provider reply
MaxAccounts == 2
\* transactions in one provider reply, over all its accounts
MaxTx == 3
\* fragments concatenated into one transaction description
MaxFrags == 2

(* ------------------------------------------------------------------ *)
(* JavaScript values                                                   *)
(* ------------------------------------------------------------------ *)

\* null and undefined (both falsy, never told apart by server.js)
Null == "<null>"

\* !!v for the values the slot and the string fields take: null, undefined
\* and the empty string are falsy, every other string is truthy
Truthy(v) == v # Null /\ v # ""

\* a || b
JsOr(a, b) == IF Truthy(a) THEN a ELSE b

(* ------------------------------------------------------------------ *)
(* Strings: toLowerCase and String.prototype.match on a keyword regex  *)
(* ------------------------------------------------------------------ *)

UpperLetters == "ABCDEFGHIJKLMNOPQRSTUVWXYZ"
LowerLetters == "abcdefghijklmnopqrstuvwxyz"

LowerChar(c) ==
  IF \E i \in 1..26 : SubSeq(UpperLetters, i, i) = c
  THEN LET i == CHOOSE j \in 1..26 : SubSeq(UpperLetters, j, j) = c
       IN SubSeq(LowerLetters, i, i)
  ELSE c

RECURSIVE ToLowerCase(_)
ToLowerCase(s) ==
  IF Len(s) = 0 THEN ""
  ELSE LowerChar(SubSeq(s, 1, 1)) \o ToLowerCase(SubSeq(s, 2, Len(s)))

\* kw occurs in s as a substring
Contains(s, kw) ==
  \E i \in 1..(Len(s) - Len(kw) + 1) : SubSeq(s, i, i + Len(kw) - 1) = kw

\* desc.match(/k1|k2|.../): the alternation of literal keywords matches
\* iff one of them is a substring
Match(desc, kws) == \E kw \in kws : Contains(desc, kw)

FoodAndDrinkKeywords ==
  {"starbucks", "coffee", "mcdonald", "burger", "pizza", "restaurant", "cafe",
   "diner", "taco", "subway", "chipotle", "wendy", "chick-fil", "dunkin",
   "grubhub", "doordash", "uber eat", "postmate"}
ShopsKeywords ==
  {"walmart", "target", "amazon", "costco", "kroger", "safeway", "whole foods",
   "trader joe", "grocery", "market"}
TravelKeywords ==
  {"uber", "lyft", "gas", "shell", "chevron", "exxon", "bp", "parking",
   "transit", "metro"}
RecreationKeywords ==
  {"netflix", "spotify", "hulu", "disney", "hbo", "youtube", "apple music",
   "gaming", "steam", "playstation", "xbox"}
ServiceKeywords ==
  {"electric", "water", "gas", "internet", "phone", "verizon", "at&t",
   "t-mobile", "comcast", "utility"}
TransferKeywords == {"transfer", "zelle", "venmo", "paypal", "cash app"}
PaymentKeywords == {"payment", "thank you"}

\* the mutants of categorizeTransaction used by the checks below
categorizeServiceFirst(description) ==
  LET desc == ToLowerCase(description) IN
  IF Match(desc, FoodAndDrinkKeywords) THEN <<"Food and Drink">>
  ELSE IF Match(desc, ShopsKeywords) THEN <<"Shops">>
  ELSE IF Match(desc, ServiceKeywords) THEN <<"Service">>
  ELSE IF Match(desc, TravelKeywords) THEN <<"Travel">>
  ELSE IF Match(desc, RecreationKeywords) THEN <<"Recreation">>
  ELSE IF Match(desc, TransferKeywords) THEN <<"Transfer">>
  ELSE IF Match(desc, PaymentKeywords) THEN <<"Payment">>
  ELSE <<"Other">>

categorizeNoLowerCase(description) ==
  LET desc == description IN
  IF Match(desc, FoodAndDrinkKeywords) THEN <<"Food and Drink">>
  ELSE IF Match(desc, ShopsKeywords) THEN <<"Shops">>
  ELSE IF Match(desc, TravelKeywords) THEN <<"Travel">>
  ELSE IF Match(desc, RecreationKeywords) THEN <<"Recreation">>
  ELSE IF Match(desc, ServiceKeywords) THEN <<"Service">>
  ELSE IF Match(desc, TransferKeywords) THEN <<"Transfer">>
  ELSE IF Match(desc, PaymentKeywords) THEN <<"Payment">>
  ELSE <<"Other">>

categorizeTransaction(description) ==
  LET desc == ToLowerCase(description) IN
  IF Match(desc, FoodAndDrinkKeywords) THEN <<"Food and Drink">>
  ELSE IF Match(desc, ShopsKeywords) THEN <<"Shops">>
  ELSE IF Match(desc, TravelKeywords) THEN <<"Travel">>
  ELSE IF Match(desc, RecreationKeywords) THEN <<"Recreation">>
  ELSE IF Match(desc, ServiceKeywords) THEN <<"Service">>
  ELSE IF Match(desc, TransferKeywords) THEN <<"Transfer">>
  ELSE IF Match(desc, PaymentKeywords) THEN <<"Payment">>
  ELSE <<"Other">>

(* ------------------------------------------------------------------ *)
(* Dates: new Date(posted * 1000).toISOString().split('T')[0] and      *)
(* new Date(date), on the proleptic Gregorian calendar in UTC          *)
(* ------------------------------------------------------------------ *)

\* TLC's integers are 32 bits wide, so instants are kept in seconds since the
\* epoch, not in JavaScript's milliseconds: every instant below is the
\* JavaScript one divided by 1000, which changes no date and no comparison
SecondsPerDay == 86400

\* the calendar date <<year, month, day>> of a count of days since 1970-01-01
CivilFromDays(days) ==
  LET z   == days + 719468
      era == z \div 146097
      doe == z - era * 146097
      yoe == (doe - (doe \div 1460) + (doe \div 36524) - (doe \div 146096)) \div 365
      doy == doe - (365 * yoe + (yoe \div 4) - (yoe \div 100))
      mp  == (5 * doy + 2) \div 153
      d   == doy - ((153 * mp + 2) \div 5) + 1
      m   == IF mp < 10 THEN mp + 3 ELSE mp - 9
      y   == yoe + era * 400 + (IF m <= 2 THEN 1 ELSE 0)
  IN <<y, m, d>>

\* the count of days since 1970-01-01 of a calendar date
DaysFromCivil(date) ==
  LET y   == date[1] - (IF date[2] <= 2 THEN 1 ELSE 0)
      era == y \div 400
      yoe == y - era * 400
      mp  == IF date[2] > 2 THEN date[2] - 3 ELSE date[2] + 9
      doy == ((153 * mp + 2) \div 5) + date[3] - 1
      doe == yoe * 365 + (yoe \div 4) - (yoe \div 100) + doy
  IN era * 146097 + doe - 719468

\* new Date(posted * 1000).toISOString().split('T')[0], as <<y, m, d>>
IsoDate(posted) == CivilFromDays(posted \div SecondsPerDay)

\* new Date(date).getTime() / 1000: a date-only ISO string parses as UTC
\* midnight
DateTime(date) == DaysFromCivil(date) * SecondsPerDay

(* ------------------------------------------------------------------ *)
(* GET /api/transactions: mapping, flattening and sort                 *)
(* ------------------------------------------------------------------ *)

\* amount: tx.amount with its sign kept (mutant of NormalizedAmount)
NativeAmount(tx) == tx.amount

\* amount: -tx.amount
NormalizedAmount(tx) == -tx.amount

\* account.transactions.map(tx => ({...}))
MapTransaction(account, tx) ==
  [id            |-> tx.id,
   account_id    |-> account.id,
   name          |-> JsOr(JsOr(tx.description, tx.payee), "Unknown"),
   merchant_name |-> JsOr(tx.payee, Null),
   amount        |-> NormalizedAmount(tx),
   date          |-> IsoDate(tx.posted),
   category      |-> categorizeTransaction(JsOr(JsOr(tx.description, tx.payee), "")),
   pending       |-> tx.pending \/ FALSE]

\* for (const account of data.accounts) { if (account.transactions) ... concat }
RECURSIVE FlattenTransactions(_)
FlattenTransactions(accounts) ==
  IF accounts = <<>> THEN <<>>
  ELSE LET account == Head(accounts)
           mapped  == IF account.hasTransactions
                      THEN [i \in 1..Len(account.transactions) |->
                              MapTransaction(account, account.transactions[i])]
                      ELSE <<>>
       IN mapped \o FlattenTransactions(Tail(accounts))

\* (a, b) => new Date(a.date) - new Date(b.date) (mutant of CompareByDate)
CompareByDateAscending(a, b) == DateTime(a.date) - DateTime(b.date)

\* the comparator (a, b) => new Date(b.date) - new Date(a.date)
CompareByDate(a, b) == DateTime(b.date) - DateTime(a.date)

\* x placed into the sorted list, after every element that does not compare
\* greater than it (Array.prototype.sort is stable)
RECURSIVE InsertSorted(_, _)
InsertSorted(sorted, x) ==
  IF sorted = <<>> THEN <<x>>
  ELSE IF CompareByDate(Head(sorted), x) <= 0
       THEN <<Head(sorted)>> \o InsertSorted(Tail(sorted), x)
       ELSE <<x>> \o sorted

\* allTransactions.sort(comparator)
RECURSIVE SortTransactions(_)
SortTransactions(txs) ==
  IF txs = <<>> THEN <<>>
  ELSE InsertSorted(SortTransactions(SubSeq(txs, 1, Len(txs) - 1)), txs[Len(txs)])

\* the body of a successful GET /api/transactions
TransactionsBody(data) ==
  [transactions |-> SortTransactions(FlattenTransactions(data.accounts))]

\* acc.id.slice(-4)
Mask(id) == IF Len(id) <= 4 THEN id ELSE SubSeq(id, Len(id) - 3, Len(id))

\* data.accounts.map(acc => ({...}))
MapAccount(acc) ==
  [id          |-> acc.id,
   name        |-> acc.name,
   mask        |-> Mask(acc.id),
   balances    |-> [current   |-> acc.balance,
                    available |-> JsOr(acc.available_balance, acc.balance)],
   type        |-> JsOr(acc.type, "checking"),
   institution |-> JsOr(acc.orgName, "Unknown")]

\* the body of a successful GET /api/accounts
AccountsBody(data) ==
  [accounts |-> [i \in 1..Len(data.accounts) |-> MapAccount(data.accounts[i])]]

(* ------------------------------------------------------------------ *)
(* What the provider can serve                                         *)
(* ------------------------------------------------------------------ *)

\* tx.posted: the last second of 1969, the first and last second of
\* 1970-01-01, and the first second after the leap day of 1972
PostedValues == {-1, 0, 86399, 68256000}

\* tx.amount: a debit and a credit in the provider's sign convention
Amounts == {-5, 3}

Fragments ==
  {"gas", "GAS ", "Coffee", "uber", " eat", "water", "Venmo", "HBO",
   "market", "payment", "xyz"}

RECURSIVE Concatenations(_)
Concatenations(n) ==
  IF n = 0 THEN {""}
  ELSE LET shorter == Concatenations(n - 1)
       IN shorter \cup {d \o f : d \in shorter, f \in Fragments}

\* the transaction descriptions of the model
Descriptions == Concatenations(MaxFrags)

ProviderTx(id, description, payee, amount, posted) ==
  [id |-> id, description |-> description, payee |-> payee,
   amount |-> amount, posted |-> posted, pending |-> FALSE]

ProviderAccount(n, hasTransactions, transactions) ==
  [id |-> "ACT-000" \o ToString(n), name |-> "Account " \o ToString(n),
   balance |-> "100.00", available_balance |-> "", type |-> "",
   orgName |-> "Bank", hasTransactions |-> hasTransactions,
   transactions |-> transactions]

\* the slice of the flat list of <<posted, amount>> pairs that account i holds
AccountTransactions(flat, sizes, i) ==
  LET before == IF i = 1 THEN 0
                ELSE LET RECURSIVE Sum(_)
                         Sum(k) == IF k = 0 THEN 0 ELSE sizes[k] + Sum(k - 1)
                     IN Sum(i - 1)
  IN [k \in 1..sizes[i] |->
        ProviderTx("TRN-" \o ToString(before + k), "Shell Oil", "",
                   flat[before + k][2], flat[before + k][1])]

\* the reply to GET <access url>/accounts: the accounts, each with or
\* without a transactions list
ProviderReply(flat, sizes, has) ==
  [accounts |-> [i \in 1..Len(sizes) |->
     ProviderAccount(i, has[i], AccountTransactions(flat, sizes, i))]]

RECURSIVE SumSizes(_)
SumSizes(sizes) ==
  IF sizes = <<>> THEN 0 ELSE Head(sizes) + SumSizes(Tail(sizes))

\* the numbers of transactions of the accounts of one reply: at most
\* MaxAccounts accounts and MaxTx transactions
AccountSizes ==
  {z \in UNION {[1..a -> 0..MaxTx] : a \in 0..MaxAccounts} : SumSizes(z) <= MaxTx}

\* which accounts carry a transactions list: every account with transactions,
\* and any of those without
ListFlags(sizes) ==
  {h \in [1..Len(sizes) -> BOOLEAN] : \A i \in 1..Len(sizes) : sizes[i] > 0 => h[i]}

\* one reply with a single transaction, for each description and payee
DescriptionReplies ==
  {[accounts |-> <<ProviderAccount(1, TRUE,
                     <<ProviderTx("TRN-1", d, payee, -5, 0)>>)>>] :
     d \in Descriptions, payee \in {"", "Venmo"}}

\* the reply the provider serves while the credential races are explored
SampleReply ==
  ProviderReply(<< <<0, -5>>, <<68256000, 3>> >>, <<1, 1>>, <<TRUE, TRUE>>)

(* ------------------------------------------------------------------ *)
(* State                                                               *)
(* ------------------------------------------------------------------ *)

VARIABLES
  SIMPLEFIN_SETUP_TOKEN,  \* process.env.SIMPLEFIN_SETUP_TOKEN, or Null
  accessUrl,              \* the shared credential slot
  claimedTokens,          \* provider side: the setup tokens already claimed
  providerData,           \* provider side: what GET .../accounts replies
  req                     \* the app.listen callback (0) and the requests

vars == <<SIMPLEFIN_SETUP_TOKEN, accessUrl, claimedTokens, providerData, req>>

\* the app.listen callback
Startup0 == 0
Reqs == 1..NumReqs
Procs == {Startup0} \cup Reqs

\* process.env.SIMPLEFIN_ACCESS_URL, when set
EnvAccessUrl == "https://u:p@bridge/env"
\* the setup tokens the provider knows; any other token decodes to no claim URL
ValidTokens == {"tokA"}
\* req.body.setup_token: absent, a valid token, garbage
BodyTokens == {Null, "tokA", "bad"}
\* the access URL a successful claim of token t returns
AccessUrlOf(t) == "https://u:p@bridge/" \o t

NoReply == [kind |-> "none", text |-> ""]
NoBody == [nothing |-> TRUE]

\* a handler that has not run: op is the endpoint, pc its position, token the
\* setup token it is claiming, reply the provider's reply to that claim,
\* held whether a credential was held when the handler was entered, claims
\* and fetches the calls it made to the provider, status and body its response
IdleReq ==
  [op |-> "none", pc |-> "idle", token |-> Null, reply |-> NoReply,
   held |-> FALSE, claims |-> 0, fetches |-> 0, status |-> 0, body |-> NoBody]

\* res.status(status).json(body), with the handler left
Respond(r, status, body) ==
  [r EXCEPT !.pc = "done", !.status = status, !.body = body]

\* the handler is entered
Enter(p, op) ==
  [req[p] EXCEPT !.op = op, !.held = Truthy(accessUrl)]

\* claimSetupToken(token) up to its await fetch(claimUrl, {method: 'POST'})
AwaitClaim(r, token) ==
  [r EXCEPT !.pc = "claim_sent", !.token = token, !.claims = @ + 1]

\* fetchSimpleFINData up to its await fetch(accountsUrl, ...)
AwaitFetch(r) ==
  [r EXCEPT !.pc = "fetch_sent", !.fetches = @ + 1]

\* what claimSetupToken returns when response.ok is not tested (mutant of
\* claimResult)
claimResultWithoutOkTest(reply) ==
  IF reply.kind = "neterr" THEN Null ELSE reply.text

\* what claimSetupToken returns for the provider's reply: the body text of
\* a 2xx response, null when fetch threw or the response was not ok
claimResult(reply) ==
  IF reply.kind = "ok" THEN reply.text ELSE Null

\* a request may arrive once the server listens
Listening == req[Startup0].pc # "init"

Arrives(p) == Listening /\ req[p].pc = "idle"

InitReq == [p \in Procs |->
  IF p = Startup0 THEN [IdleReq EXCEPT !.op = "startup", !.pc = "init"]
  ELSE IdleReq]

\* the server as constructed, for every environment
Init ==
  /\ SIMPLEFIN_SETUP_TOKEN \in {Null, "tokA"}
  /\ accessUrl \in {Null, EnvAccessUrl}
  /\ claimedTokens = {}
  /\ providerData = SampleReply
  /\ req = InitReq

\* the server started with an access URL in its environment and no setup
\* token, for every reply the provider can serve
InitTx ==
  /\ SIMPLEFIN_SETUP_TOKEN = Null
  /\ accessUrl = EnvAccessUrl
  /\ claimedTokens = {}
  /\ \E sizes \in AccountSizes : \E has \in ListFlags(sizes) :
       \E flat \in [1..SumSizes(sizes) -> PostedValues \X Amounts] :
         providerData = ProviderReply(flat, sizes, has)
  /\ req = InitReq

\* the same server, the provider serving one transaction of any description
InitCat ==
  /\ SIMPLEFIN_SETUP_TOKEN = Null
  /\ accessUrl = EnvAccessUrl
  /\ claimedTokens = {}
  /\ providerData \in DescriptionReplies
  /\ req = InitReq

(* ------------------------------------------------------------------ *)
(* The provider's claim endpoint                                       *)
(* ------------------------------------------------------------------ *)

\* the replies to POST <claim url>: a token is claimed at most once, a
\* claimed or unknown token is refused, and any request can fail
ClaimReplies(token) ==
  IF token \in ValidTokens /\ token \notin claimedTokens
  THEN {[kind |-> "ok", text |-> AccessUrlOf(token)],
        [kind |-> "ok", text |-> ""],
        [kind |-> "status", text |-> "Forbidden"],
        [kind |-> "neterr", text |-> ""]}
  ELSE IF token \in ValidTokens
       THEN {[kind |-> "status", text |-> "Forbidden"],
             [kind |-> "neterr", text |-> ""]}
       ELSE {[kind |-> "neterr", text |-> ""]}

\* the provider answers the claim a handler awaits
ProviderClaim(p) ==
  /\ req[p].pc = "claim_sent"
  /\ \E reply \in ClaimReplies(req[p].token) :
       /\ req' = [req EXCEPT ![p].pc = "claim_replied", ![p].reply = reply]
       /\ claimedTokens' = IF reply.kind = "ok" /\ reply.text # ""
                           THEN claimedTokens \cup {req[p].token}
                           ELSE claimedTokens
  /\ UNCHANGED <<SIMPLEFIN_SETUP_TOKEN, accessUrl, providerData>>

(* ------------------------------------------------------------------ *)
(* Writes of the credential slot                                       *)
(* ------------------------------------------------------------------ *)

\* accessUrl = result, whatever result is (mutant of ConnectSlot)
ConnectSlotUnconditional(result) == result

\* POST /api/connect: if (newAccessUrl) accessUrl = newAccessUrl
ConnectSlot(result) == IF Truthy(result) THEN result ELSE accessUrl

\* accessUrl = await claimSetupToken(SIMPLEFIN_SETUP_TOKEN)
AutoConnectSlot(result) == result

\* the slot left as it is (mutant of DisconnectSlot)
DisconnectSlotKept == accessUrl

\* POST /api/disconnect: accessUrl = null
DisconnectSlot == Null

\* if (!accessUrl && token) with the token not tested (mutant of
\* NeedsAutoConnect)
NeedsAutoConnectAnyToken == ~Truthy(accessUrl)

\* if (!accessUrl && SIMPLEFIN_SETUP_TOKEN)
NeedsAutoConnect == ~Truthy(accessUrl) /\ Truthy(SIMPLEFIN_SETUP_TOKEN)

\* connected: !!accessUrl
Connected == Truthy(accessUrl)

(* ------------------------------------------------------------------ *)
(* app.listen callback                                                 *)
(* ------------------------------------------------------------------ *)

Startup ==
  /\ req[Startup0].pc = "init"
  /\ req' = [req EXCEPT ![Startup0] =
       IF NeedsAutoConnect
       THEN AwaitClaim(Enter(Startup0, "startup"), SIMPLEFIN_SETUP_TOKEN)
       ELSE [Enter(Startup0, "startup") EXCEPT !.pc = "done"]]
  /\ UNCHANGED <<SIMPLEFIN_SETUP_TOKEN, accessUrl, claimedTokens, providerData>>

StartupClaimReturn ==
  /\ req[Startup0].pc = "claim_replied"
  /\ accessUrl' = AutoConnectSlot(claimResult(req[Startup0].reply))
  /\ req' = [req EXCEPT ![Startup0].pc = "done"]
  /\ UNCHANGED <<SIMPLEFIN_SETUP_TOKEN, claimedTokens, providerData>>

(* ------------------------------------------------------------------ *)
(* Handlers without an await                                           *)
(* ------------------------------------------------------------------ *)

Health(p) ==
  /\ Arrives(p)
  /\ req' = [req EXCEPT ![p] = Respond(Enter(p, "health"), 200,
       [status |-> "ok", provider |-> "simplefin", connected |-> Connected])]
  /\ UNCHANGED <<SIMPLEFIN_SETUP_TOKEN, accessUrl, claimedTokens, providerData>>

Status(p) ==
  /\ Arrives(p)
  /\ req' = [req EXCEPT ![p] = Respond(Enter(p, "status"), 200,
       [connected |-> Connected])]
  /\ UNCHANGED <<SIMPLEFIN_SETUP_TOKEN, accessUrl, claimedTokens, providerData>>

CreateLinkToken(p) ==
  /\ Arrives(p)
  /\ req' = [req EXCEPT ![p] = Respond(Enter(p, "create-link-token"), 200,
       [link_token |-> "simplefin-mode"])]
  /\ UNCHANGED <<SIMPLEFIN_SETUP_TOKEN, accessUrl, claimedTokens, providerData>>

Disconnect(p) ==
  /\ Arrives(p)
  /\ accessUrl' = DisconnectSlot
  /\ req' = [req EXCEPT ![p] = Respond(Enter(p, "disconnect"), 200,
       [success |-> TRUE])]
  /\ UNCHANGED <<SIMPLEFIN_SETUP_TOKEN, claimedTokens, providerData>>

(* ------------------------------------------------------------------ *)
(* POST /api/connect                                                   *)
(* ------------------------------------------------------------------ *)

Connect(p) ==
  /\ Arrives(p)
  /\ \E bodyToken \in BodyTokens :
       LET setupToken == JsOr(bodyToken, SIMPLEFIN_SETUP_TOKEN) IN
       req' = [req EXCEPT ![p] =
         IF ~Truthy(setupToken)
         THEN Respond(Enter(p, "connect"), 400,
                      [error |-> "No setup token provided"])
         ELSE AwaitClaim(Enter(p, "connect"), setupToken)]
  /\ UNCHANGED <<SIMPLEFIN_SETUP_TOKEN, accessUrl, claimedTokens, providerData>>

ConnectClaimReturn(p) ==
  /\ req[p].op = "connect"
  /\ req[p].pc = "claim_replied"
  /\ LET newAccessUrl == claimResult(req[p].reply) IN
       /\ accessUrl' = ConnectSlot(newAccessUrl)
       /\ req' = [req EXCEPT ![p] =
            IF Truthy(newAccessUrl)
            THEN Respond(req[p], 200, [success |-> TRUE])
            ELSE Respond(req[p], 500, [error |-> "Failed to claim token"])]
  /\ UNCHANGED <<SIMPLEFIN_SETUP_TOKEN, claimedTokens, providerData>>

(* ------------------------------------------------------------------ *)
(* GET /api/accounts and GET /api/transactions                         *)
(* ------------------------------------------------------------------ *)

\* if (!accessUrl) return res.status(400)...; else the try block up to the
\* await of fetchSimpleFINData, for the slot value the handler reads
RequireConnected(r, slot) ==
  IF ~Truthy(slot)
  THEN Respond(r, 400, [error |-> "Not connected. Call /api/connect first."])
  ELSE AwaitFetch(r)

\* the handler from its entry to its first await or its response
DataRequest(p, op) ==
  /\ Arrives(p)
  /\ req' = [req EXCEPT ![p] =
       IF NeedsAutoConnect
       THEN AwaitClaim(Enter(p, op), SIMPLEFIN_SETUP_TOKEN)
       ELSE RequireConnected(Enter(p, op), accessUrl)]
  /\ UNCHANGED <<SIMPLEFIN_SETUP_TOKEN, accessUrl, claimedTokens, providerData>>

\* the handler resumed after accessUrl = await claimSetupToken(...)
DataClaimReturn(p, op) ==
  /\ req[p].op = op
  /\ req[p].pc = "claim_replied"
  /\ accessUrl' = AutoConnectSlot(claimResult(req[p].reply))
  /\ req' = [req EXCEPT ![p] = RequireConnected(req[p], accessUrl')]
  /\ UNCHANGED <<SIMPLEFIN_SETUP_TOKEN, claimedTokens, providerData>>

\* the outcomes of fetchSimpleFINData: the parsed reply, a response that is
\* not ok, or a throw (network, URL, JSON or reply shape)
FetchOutcomes == {"ok", "status", "throw"}

\* the handler resumed after await fetchSimpleFINData(...)
DataFetchReturn(p, op, body, failure) ==
  /\ req[p].op = op
  /\ req[p].pc = "fetch_sent"
  /\ \E outcome \in FetchOutcomes :
       req' = [req EXCEPT ![p] =
         IF outcome = "ok" THEN Respond(req[p], 200, body)
         ELSE Respond(req[p], 500, [error |-> failure])]
  /\ UNCHANGED <<SIMPLEFIN_SETUP_TOKEN, accessUrl, claimedTokens, providerData>>

Accounts(p) == DataRequest(p, "accounts")
AccountsClaimReturn(p) == DataClaimReturn(p, "accounts")
AccountsFetchReturn(p) ==
  DataFetchReturn(p, "accounts", AccountsBody(providerData),
                  "Failed to fetch accounts")

Transactions(p) == DataRequest(p, "transactions")
TransactionsClaimReturn(p) == DataClaimReturn(p, "transactions")
TransactionsFetchReturn(p) ==
  DataFetchReturn(p, "transactions", TransactionsBody(providerData),
                  "Failed to fetch transactions")

(* ------------------------------------------------------------------ *)
(* POST /api/exchange-token                                            *)
(* ------------------------------------------------------------------ *)

ExchangeToken(p) ==
  /\ Arrives(p)
  /\ req' = [req EXCEPT ![p] =
       IF NeedsAutoConnect
       THEN AwaitClaim(Enter(p, "exchange-token"), SIMPLEFIN_SETUP_TOKEN)
       ELSE Respond(Enter(p, "exchange-token"), 200, [success |-> Connected])]
  /\ UNCHANGED <<SIMPLEFIN_SETUP_TOKEN, accessUrl, claimedTokens, providerData>>

ExchangeClaimReturn(p) ==
  /\ req[p].op = "exchange-token"
  /\ req[p].pc = "claim_replied"
  /\ accessUrl' = AutoConnectSlot(claimResult(req[p].reply))
  /\ req' = [req EXCEPT ![p] = Respond(req[p], 200,
       [success |-> Truthy(accessUrl')])]
  /\ UNCHANGED <<SIMPLEFIN_SETUP_TOKEN, claimedTokens, providerData>>

(* ------------------------------------------------------------------ *)
(* Specifications                                                      *)
(* ------------------------------------------------------------------ *)

Next ==
  \/ Startup
  \/ StartupClaimReturn
  \/ \E p \in Procs : ProviderClaim(p)
  \/ \E p \in Reqs : Health(p)
  \/ \E p \in Reqs : Status(p)
  \/ \E p \in Reqs : CreateLinkToken(p)
  \/ \E p \in Reqs : Disconnect(p)
  \/ \E p \in Reqs : Connect(p)
  \/ \E p \in Reqs : ConnectClaimReturn(p)
  \/ \E p \in Reqs : Accounts(p)
  \/ \E p \in Reqs : AccountsClaimReturn(p)
  \/ \E p \in Reqs : AccountsFetchReturn(p)
  \/ \E p \in Reqs : Transactions(p)
  \/ \E p \in Reqs : TransactionsClaimReturn(p)
  \/ \E p \in Reqs : TransactionsFetchReturn(p)
  \/ \E p \in Reqs : ExchangeToken(p)
  \/ \E p \in Reqs : ExchangeClaimReturn(p)

\* every interleaving of NumReqs requests and the startup callback
Spec == Init /\ [][Next]_vars

\* one GET /api/transactions against a connected server
NextTx ==
  \/ Startup
  \/ Transactions(1)
  \/ TransactionsFetchReturn(1)

SpecTx == InitTx /\ [][NextTx]_vars

SpecCat == InitCat /\ [][NextTx]_vars

(* ------------------------------------------------------------------ *)
(* Properties                                                          *)
(* ------------------------------------------------------------------ *)

Done(p, op) == req[p].op = op /\ req[p].pc = "done"

\* handler p is entered in this step, as endpoint op
Enters(p, op) == req[p].pc = "idle" /\ req'[p].op = op

\* handler p resumes in this step from its awaited claim
ResumesFromClaim(p, op) ==
  req[p].op = op /\ req[p].pc = "claim_replied" /\ req'[p].pc # "claim_replied"

\* the claim reply carries an access URL
ClaimSucceeded(reply) == reply.kind = "ok" /\ reply.text # ""

DataOps == {"accounts", "transactions"}

\* C1: once the slot holds a credential it keeps holding one in every step
\* that is not a disconnect; in particular a claim that failed and resumes
\* later does not write its null over it.
CredentialKeptUntilDisconnect ==
  [][(Truthy(accessUrl) /\ ~Truthy(accessUrl'))
       => \E p \in Reqs : Enters(p, "disconnect")]_vars

\* C2: a disconnect entered with no credential held answers 400.
DisconnectNotConnectedIs400 ==
  \A p \in Reqs :
    (Done(p, "disconnect") /\ ~req[p].held) => req[p].status = 400

\* C3: with no credential and no SIMPLEFIN_SETUP_TOKEN, GET /api/accounts
\* and GET /api/transactions answer 400 in the step they are entered, call
\* the provider neither to claim nor to fetch, and leave the slot empty.
NotConnectedWithoutSource ==
  [][\A p \in Reqs : \A op \in DataOps :
       (Enters(p, op) /\ ~Truthy(accessUrl) /\ ~Truthy(SIMPLEFIN_SETUP_TOKEN))
         => /\ req'[p].pc = "done"
            /\ req'[p].status = 400
            /\ req'[p].claims = 0
            /\ req'[p].fetches = 0
            /\ ~Truthy(accessUrl')]_vars

NotConnectedWithoutSourceWitness ==
  /\ ~Truthy(SIMPLEFIN_SETUP_TOKEN)
  /\ ~Truthy(accessUrl)
  /\ \A op \in DataOps : \E p \in Reqs :
       /\ Done(p, op)
       /\ ~req[p].held
       /\ req[p].status = 400
       /\ req[p].claims = 0 /\ req[p].fetches = 0

\* the one transaction the provider serves, and the one the handler returns
ServedTx == providerData.accounts[1].transactions[1]
ReturnedTx(p) == req[p].body.transactions[1]
\* the text the handler hands to categorizeTransaction
ServedText == IF ServedTx.description # "" THEN ServedTx.description
              ELSE ServedTx.payee
MentionsGas(text) == Contains(ToLowerCase(text), "gas")
Returned(p) == Done(p, "transactions") /\ req[p].status = 200

\* C4 as stated: every description containing "gas" is categorized Travel.
GasIsAlwaysTravel ==
  \A p \in Reqs :
    (Returned(p) /\ MentionsGas(ServedText))
      => ReturnedTx(p).category = <<"Travel">>

\* C4 amended: a description containing "gas" is never categorized Service;
\* it is categorized Travel unless it also contains a Food and Drink or a
\* Shops keyword, and then it gets that earlier group's label.
GasIsNeverService ==
  \A p \in Reqs :
    (Returned(p) /\ MentionsGas(ServedText))
      => LET desc == ToLowerCase(ServedText)
             category == ReturnedTx(p).category
         IN /\ category # <<"Service">>
            /\ category = IF Match(desc, FoodAndDrinkKeywords)
                          THEN <<"Food and Drink">>
                          ELSE IF Match(desc, ShopsKeywords) THEN <<"Shops">>
                          ELSE <<"Travel">>

GasIsNeverServiceWitness ==
  \E p \in Reqs :
    /\ Returned(p)
    /\ MentionsGas(ServedText)
    /\ Match(ToLowerCase(ServedText), ServiceKeywords \ {"gas"})
    /\ ReturnedTx(p).category = <<"Travel">>

\* the keyword groups in their priority order
Groups ==
  <<[label |-> "Food and Drink", keywords |-> FoodAndDrinkKeywords],
    [label |-> "Shops",          keywords |-> ShopsKeywords],
    [label |-> "Travel",         keywords |-> TravelKeywords],
    [label |-> "Recreation",     keywords |-> RecreationKeywords],
    [label |-> "Service",        keywords |-> ServiceKeywords],
    [label |-> "Transfer",       keywords |-> TransferKeywords],
    [label |-> "Payment",        keywords |-> PaymentKeywords]>>

\* the groups with a keyword occurring in the text, letter case ignored
MatchingGroups(text) ==
  {i \in DOMAIN Groups :
     \E kw \in Groups[i].keywords : Contains(ToLowerCase(text), kw)}

\* C5: the category is a list of exactly one label, the label of the first
\* group in priority order with a keyword occurring in the lowercased
\* description, and it is Other if and only if no group matches.
FirstMatchWins ==
  \A p \in Reqs :
    Returned(p)
      => LET category == ReturnedTx(p).category
             matching == MatchingGroups(ServedText)
         IN /\ Len(category) = 1
            /\ (matching = {}) <=> (category = <<"Other">>)
            /\ matching # {}
                 => \E i \in matching :
                      /\ \A j \in matching : i <= j
                      /\ category = <<Groups[i].label>>

\* an upper-case description matching two groups gets the earlier label
FirstMatchWinsWitness ==
  \E p \in Reqs :
    /\ Returned(p)
    /\ ServedText # ToLowerCase(ServedText)
    /\ Cardinality(MatchingGroups(ServedText)) >= 2
    /\ ReturnedTx(p).category = <<"Travel">>

\* C6: when POST /api/connect resumes from its claim, a reply carrying an
\* access URL leaves that URL in the slot and answers {success: true}; a
\* network error, an unusable token or a response that is not ok answers 500
\* with an error and leaves the slot as it was.
ConnectOutcome ==
  [][\A p \in Reqs :
       ResumesFromClaim(p, "connect")
         => IF ClaimSucceeded(req[p].reply)
            THEN /\ accessUrl' = req[p].reply.text
                 /\ req'[p].pc = "done"
                 /\ req'[p].status = 200
                 /\ req'[p].body = [success |-> TRUE]
            ELSE /\ accessUrl' = accessUrl
                 /\ req'[p].pc = "done"
                 /\ req'[p].status = 500
                 /\ DOMAIN req'[p].body = {"error"}]_vars

\* a connect entered with no credential has succeeded and holds its URL,
\* and another one has failed on a reply that is not ok
ConnectOutcomeWitness ==
  \E p, q \in Reqs :
    /\ Done(p, "connect") /\ ~req[p].held /\ req[p].status = 200
    /\ accessUrl = req[p].reply.text
    /\ Done(q, "connect") /\ ~req[q].held /\ req[q].status = 500
    /\ req[q].reply.kind = "status"

\* C7: when GET /api/accounts or GET /api/transactions resumes from an
\* implicit claim that failed, it answers 400, has made no data fetch, and
\* leaves the slot empty.
FailedAutoConnectIsNotConnected ==
  [][\A p \in Reqs : \A op \in DataOps :
       (ResumesFromClaim(p, op) /\ ~ClaimSucceeded(req[p].reply))
         => /\ req'[p].pc = "done"
            /\ req'[p].status = 400
            /\ req'[p].fetches = 0
            /\ ~Truthy(accessUrl')]_vars

FailedAutoConnectWitness ==
  \A op \in DataOps : \E p \in Reqs :
    /\ Done(p, op)
    /\ ~req[p].held
    /\ req[p].claims = 1
    /\ req[p].reply.kind \in {"status", "neterr"}
    /\ req[p].status = 400
    /\ req[p].fetches = 0

\* C8: the step of POST /api/disconnect leaves the slot empty whatever it
\* held, and GET /api/status and GET /api/health report connected exactly
\* when the slot holds a credential, so connected: false right after it.
DisconnectClears ==
  [][\A p \in Reqs :
       /\ Enters(p, "disconnect")
            => /\ accessUrl' = Null
               /\ req'[p].pc = "done"
               /\ ~Connected'
       /\ \A op \in {"status", "health"} :
            Enters(p, op) => req'[p].body.connected = Truthy(accessUrl')]_vars

\* a disconnect entered with a credential held, then a status that reports
\* connected: false
DisconnectClearsWitness ==
  \E p, q \in Reqs :
    /\ Done(p, "disconnect") /\ req[p].held
    /\ Done(q, "status") /\ ~req[q].held
    /\ req[q].body.connected = FALSE
    /\ ~Truthy(accessUrl)

\* the provider's transactions, over all accounts that carry a list
ServedTransactions ==
  UNION {{a.transactions[i] : i \in 1..Len(a.transactions)} :
           a \in {providerData.accounts[k] :
                    k \in {n \in 1..Len(providerData.accounts) :
                             providerData.accounts[n].hasTransactions}}}

\* date a is not before date b, as ISO dates compare
DateGeq(a, b) ==
  \/ a[1] > b[1]
  \/ a[1] = b[1] /\ a[2] > b[2]
  \/ a[1] = b[1] /\ a[2] = b[2] /\ a[3] >= b[3]

\* C9: a successful GET /api/transactions returns every transaction of
\* every account, most recent date first.
SortedByDateDescending ==
  \A p \in Reqs :
    Returned(p)
      => LET t == req[p].body.transactions
         IN /\ Len(t) = Cardinality(ServedTransactions)
            /\ \A i \in 1..(Len(t) - 1) : DateGeq(t[i].date, t[i + 1].date)

\* two accounts served oldest first come back reordered
SortedByDateDescendingWitness ==
  \E p \in Reqs :
    /\ Returned(p)
    /\ LET t == req[p].body.transactions
       IN /\ Len(t) >= 2
          /\ t[1].account_id # t[Len(t)].account_id
          /\ t[1].id # "TRN-1"
          /\ t[1].date # t[Len(t)].date

\* C10: every returned transaction carries the negated native amount of the
\* provider's transaction of the same id, so a native debit is positive and
\* a native credit negative.
AmountSignInverted ==
  \A p \in Reqs :
    Returned(p)
      => LET t == req[p].body.transactions
         IN \A n \in ServedTransactions :
              \E i \in 1..Len(t) :
                /\ t[i].id = n.id
                /\ t[i].amount = 0 - n.amount
                /\ n.amount < 0 => t[i].amount > 0
                /\ n.amount > 0 => t[i].amount < 0

AmountSignInvertedWitness ==
  \E p \in Reqs :
    /\ Returned(p)
    /\ \E n, m \in ServedTransactions : n.amount < 0 /\ m.amount > 0

====
